---- MODULE Spec2Model ----
(***************************************************************************)
(* A model of egs2/genshin/tts1/local/data_process.py: the corpus cleaning *)
(* run of main() over a directory tree.                                    *)
(*                                                                         *)
(* A name is a sequence of one-character strings; a CJK character is one   *)
(* token ("u6218" is U+6218).  A path is a sequence of names below the     *)
(* target folder, <<>> being the target folder itself.  The filesystem is  *)
(* a function from the existing paths to their nodes.                      *)
(***************************************************************************)
EXTENDS Integers, Sequences, FiniteSets, TLC

(***************************************************************************)
(* Characters and names                                                    *)
(***************************************************************************)
UpperLetters == <<"A","B","C","D","E","F","G","H","I","J","K","L","M",
                  "N","O","P","Q","R","S","T","U","V","W","X","Y","Z">>

LowerLetters == <<"a","b","c","d","e","f","g","h","i","j","k","l","m",
                  "n","o","p","q","r","s","t","u","v","w","x","y","z">>

DigitChars == {"0","1","2","3","4","5","6","7","8","9"}

Range(s) == {s[i] : i \in DOMAIN s}

\* str.lower() of one character
Lower(c) ==
  IF \E i \in DOMAIN UpperLetters : UpperLetters[i] = c
  THEN LowerLetters[CHOOSE i \in DOMAIN UpperLetters : UpperLetters[i] = c]
  ELSE c

\* str.upper() of one character
Upper(c) ==
  IF \E i \in DOMAIN LowerLetters : LowerLetters[i] = c
  THEN UpperLetters[CHOOSE i \in DOMAIN LowerLetters : LowerLetters[i] = c]
  ELSE c

LowerSeq(s) == [i \in DOMAIN s |-> Lower(s[i])]

\* str.capitalize(): the first character upper-cased, the rest lower-cased
Capitalize(s) == [i \in DOMAIN s |-> IF i = 1 THEN Upper(s[i]) ELSE Lower(s[i])]

\* the characters in the range u4e00..u9fff that the model's names use, each
\* with the syllable pypinyin.lazy_pinyin gives for it
PinyinTable ==
  [u6218 |-> <<"z","h","a","n">>, u6597 |-> <<"d","o","u">>,
   u8BED |-> <<"y","u">>,         u97F3 |-> <<"y","i","n">>,
   u5176 |-> <<"q","i">>,         u5B83 |-> <<"t","a">>,
   u5E26 |-> <<"d","a","i">>,     u53D8 |-> <<"b","i","a","n">>,
   u91CF |-> <<"l","i","a","n","g">>]

CJK == DOMAIN PinyinTable

\* the constant FOLDERS_TO_REMOVE
FOLDERS_TO_REMOVE ==
  { <<"u5176","u5B83","u8BED","u97F3"," ","-"," ","O","t","h","e","r","s">>,
    <<"u5E26","u53D8","u91CF","u8BED","u97F3"," ","-"," ",
      "P","l","a","c","e","h","o","l","d","e","r">>,
    <<"u6218","u6597","u8BED","u97F3"," ","-"," ","B","a","t","t","l","e">>,
    <<"#","U","n","k","n","o","w","n">> }

\* the constant AUDIO_EXTENSIONS
AUDIO_EXTENSIONS ==
  { <<".","m","p","3">>, <<".","w","a","v">>, <<".","o","g","g">>,
    <<".","m","4","a">>, <<".","f","l","a","c">> }

has_chinese(text) == \E i \in DOMAIN text : text[i] \in CJK

IsAlnumOrSpace(c) ==
  \/ c \in Range(UpperLetters)
  \/ c \in Range(LowerLetters)
  \/ c \in DigitChars
  \/ c = " "

\* ' '.join(s.split()): runs of spaces collapsed, leading and trailing ones cut
RECURSIVE CollapseSpaces(_)
CollapseSpaces(s) ==
  IF s = <<>> THEN <<>>
  ELSE IF Head(s) = " " THEN CollapseSpaces(Tail(s))
  ELSE LET rest == CollapseSpaces(Tail(s))
       IN  IF Len(s) > 1 /\ s[2] = " " /\ rest # <<>>
           THEN <<Head(s), " ">> \o rest
           ELSE <<Head(s)>> \o rest

clean_name(text) == CollapseSpaces(SelectSeq(text, IsAlnumOrSpace))

\* pypinyin.lazy_pinyin: one syllable per CJK character, and each maximal
\* run of other characters kept as one element
RECURSIVE lazy_pinyin(_)
lazy_pinyin(text) ==
  IF text = <<>> THEN <<>>
  ELSE IF Head(text) \in CJK
       THEN <<PinyinTable[Head(text)]>> \o lazy_pinyin(Tail(text))
       ELSE LET stops == {i \in DOMAIN text : text[i] \in CJK}
                n     == IF stops = {} THEN Len(text)
                         ELSE (CHOOSE i \in stops : \A j \in stops : i <= j) - 1
            IN  <<SubSeq(text, 1, n)>> \o lazy_pinyin(SubSeq(text, n + 1, Len(text)))

RECURSIVE JoinAll(_)
JoinAll(ss) == IF ss = <<>> THEN <<>> ELSE Head(ss) \o JoinAll(Tail(ss))

\* convert_to_pinyin; lazy_pinyin is total on the names of the model, so the
\* fallback of the except branch, clean_name(text), is never taken
convert_to_pinyin(text) ==
  LET pinyin_list == lazy_pinyin(text)
  IN  clean_name(JoinAll([i \in DOMAIN pinyin_list |-> Capitalize(pinyin_list[i])]))

\* re.compile(r'[_-]?(\d+)$').search(dir_name): 0 when there is no match, else
\* match.start() + 1, the place of the leftmost match: the trailing run of
\* digits, with the one separator before it when there is one
MatchStart(dir_name) ==
  LET n == Len(dir_name)
  IN  IF n = 0 \/ dir_name[n] \notin DigitChars THEN 0
      ELSE LET k == CHOOSE i \in 1..n :
                      /\ \A j \in i..n : dir_name[j] \in DigitChars
                      /\ (i = 1 \/ dir_name[i-1] \notin DigitChars)
           IN  IF k > 1 /\ dir_name[k-1] \in {"_", "-"} THEN k - 1 ELSE k

\* dir_name[:match.start()]
StripSuffix(dir_name) == SubSeq(dir_name, 1, MatchStart(dir_name) - 1)

\* name.replace('_', '-')
UnderscoreToDash(name) == [i \in DOMAIN name |-> IF name[i] = "_" THEN "-" ELSE name[i]]

\* the place of the last "." of a name, 0 when it has none
LastDot(name) ==
  LET dots == {i \in DOMAIN name : name[i] = "."}
  IN  IF dots = {} THEN 0 ELSE CHOOSE i \in dots : \A j \in dots : j <= i

\* os.path.splitext on the last component: <<root, ext>>; leading dots
\* belong to the root
Splitext(name) ==
  LET d == LastDot(name)
  IN  IF d > 0 /\ \E i \in 1..(d-1) : name[i] # "."
      THEN <<SubSeq(name, 1, d - 1), SubSeq(name, d, Len(name))>>
      ELSE <<name, <<>>>>

\* pathlib's PurePath.suffix
Suffix(name) ==
  LET d == LastDot(name)
  IN  IF 1 < d /\ d < Len(name) THEN SubSeq(name, d, Len(name)) ELSE <<>>

\* pathlib's PurePath.with_suffix
WithSuffix(name, ext) == SubSeq(name, 1, Len(name) - Len(Suffix(name))) \o ext

EndsWith(s, t) == Len(t) <= Len(s) /\ SubSeq(s, Len(s) - Len(t) + 1, Len(s)) = t

\* str.replace(old, new): every non-overlapping occurrence, left to right
RECURSIVE Replace(_, _, _)
Replace(s, old, new) ==
  IF Len(s) < Len(old) THEN s
  ELSE IF SubSeq(s, 1, Len(old)) = old
       THEN new \o Replace(SubSeq(s, Len(old) + 1, Len(s)), old, new)
       ELSE <<Head(s)>> \o Replace(Tail(s), old, new)

DigitSeq == <<"0","1","2","3","4","5","6","7","8","9">>

\* str(counter) of a counter >= 0
RECURSIVE Str(_)
Str(n) == IF n < 10 THEN <<DigitSeq[n + 1]>>
          ELSE Str(n \div 10) \o <<DigitSeq[(n % 10) + 1]>>

(***************************************************************************)
(* The filesystem                                                          *)
(*                                                                         *)
(* A file's data: id names the bytes it was created with, gen counts the   *)
(* times it was re-encoded, ok says that pydub decodes it, sf that         *)
(* soundfile is there and reads it, and ch, rate and ms are what they      *)
(* decode: channels, sample rate, milliseconds.                            *)
(***************************************************************************)
Dir == [type |-> "dir"]

File(data) == [type |-> "file", data |-> data]

IsPrefix(p, q) == Len(p) <= Len(q) /\ SubSeq(q, 1, Len(p)) = p

Parent(p) == SubSeq(p, 1, Len(p) - 1)

Basename(p) == p[Len(p)]

\* os.path.exists; the target folder itself is there throughout
Exists(f, p) == p = <<>> \/ p \in DOMAIN f

IsDir(f, p) == p = <<>> \/ (p \in DOMAIN f /\ f[p].type = "dir")

IsFile(f, p) == p \in DOMAIN f /\ f[p].type = "file"

\* os.listdir, as full paths
Children(f, p) == {q \in DOMAIN f : Len(q) = Len(p) + 1 /\ IsPrefix(p, q)}

Restrict(f, D) == [q \in D |-> f[q]]

\* shutil.rmtree / os.remove of an existing path
RemoveTree(f, p) == Restrict(f, {q \in DOMAIN f : ~IsPrefix(p, q)})

\* the tree with the subtree at old moved to new, whatever was at new gone
MoveTree(f, old, new) ==
  LET moved == {q \in DOMAIN f : IsPrefix(old, q)}
      kept  == {q \in DOMAIN f : ~IsPrefix(old, q) /\ ~IsPrefix(new, q)}
      To(q) == new \o SubSeq(q, Len(old) + 1, Len(q))
      From(q) == old \o SubSeq(q, Len(new) + 1, Len(q))
  IN  [q \in kept \cup {To(m) : m \in moved} |->
         IF q \in kept THEN f[q] ELSE f[From(q)]]

\* os.rename (POSIX): a file replaces a file, a directory replaces an empty
\* directory, and every other occupied target is an OSError
os_rename(f, old, new) ==
  LET fails ==
        \/ old = <<>> \/ new = <<>>
        \/ ~Exists(f, old)
        \/ ~IsDir(f, Parent(new))
        \/ (old # new /\ IsPrefix(old, new))
        \/ (IsFile(f, old) /\ IsDir(f, new))
        \/ (IsDir(f, old) /\ IsFile(f, new))
        \/ (IsDir(f, old) /\ IsDir(f, new) /\ Children(f, new) # {})
  IN  IF fails THEN [ok |-> FALSE, fs |-> f]
      ELSE IF old = new THEN [ok |-> TRUE, fs |-> f]
      ELSE [ok |-> TRUE, fs |-> MoveTree(f, old, new)]

\* os.remove: a file only
os_remove(f, p) ==
  IF IsFile(f, p) THEN [ok |-> TRUE, fs |-> RemoveTree(f, p)]
  ELSE [ok |-> FALSE, fs |-> f]

\* shutil.move(src, dst): into dst when dst is a directory, and then an
\* Error when the name is taken there; else os.rename onto dst, whose
\* OSError for a directory src ends in copytree's FileExistsError
shutil_move(f, src, dst) ==
  IF IsDir(f, dst)
  THEN LET real_dst == dst \o <<Basename(src)>>
       IN  IF Exists(f, real_dst) THEN [ok |-> FALSE, fs |-> f]
           ELSE os_rename(f, src, real_dst)
  ELSE os_rename(f, src, dst)

\* safe_remove_folder without its `if dry_run` return
safe_remove_folder_unguarded(f, folder_path, dry_run) ==
  IF Exists(f, folder_path) /\ folder_path # <<>> /\ IsDir(f, folder_path)
  THEN RemoveTree(f, folder_path)
  ELSE f

\* safe_remove_folder
safe_remove_folder(f, folder_path, dry_run) ==
  IF dry_run THEN f
  ELSE IF Exists(f, folder_path) /\ folder_path # <<>> /\ IsDir(f, folder_path)
       THEN RemoveTree(f, folder_path)
       ELSE f

\* the loop of safe_rename: the first of base_1, base_2, ... (the counter
\* before the extension) that does not exist
RECURSIVE FreePath(_, _, _)
FreePath(f, base_path, counter) ==
  LET parts    == Splitext(Basename(base_path))
      new_path == Parent(base_path) \o <<parts[1] \o <<"_">> \o Str(counter) \o parts[2]>>
  IN  IF Exists(f, new_path) THEN FreePath(f, base_path, counter + 1) ELSE new_path

\* safe_rename: the tree afterwards (an OSError of os.rename is caught)
safe_rename(f, old_path, new_path) ==
  IF old_path = new_path THEN f
  ELSE LET target == IF Exists(f, new_path) THEN FreePath(f, new_path, 1) ELSE new_path
       IN  os_rename(f, old_path, target).fs

\* os.path.join(root, name): the root itself when the name is empty
Join(root, name) == IF name = <<>> THEN root ELSE root \o <<name>>

(***************************************************************************)
(* os.walk                                                                 *)
(***************************************************************************)
\* the orders os.scandir may list a set in
RECURSIVE Perms(_)
Perms(S) ==
  IF S = {} THEN {<<>>}
  ELSE UNION { { <<x>> \o s : s \in Perms(S \ {x}) } : x \in S }

SubDirs(f, top) == {Basename(q) : q \in {c \in Children(f, top) : f[c].type = "dir"}}

Files(f, top) == {Basename(q) : q \in {c \in Children(f, top) : f[c].type = "file"}}

\* os.walk(top, topdown=False): the sequences of (root, dirs, files) it may
\* yield, every directory after the directories below it, which are walked
\* in the order of dirs.  Each directory is listed before anything below it
\* is yielded, and a pass changes only what is below the root it was
\* yielded, so the listings are those of the tree the walk starts on.
RECURSIVE WalkBottomUp(_, _), WalkBelow(_, _, _, _)
WalkBottomUp(f, top) ==
  UNION { { below \o <<[root |-> top, dirs |-> ds, files |-> fl]>> :
              below \in WalkBelow(f, top, ds, 1), fl \in Perms(Files(f, top)) } :
          ds \in Perms(SubDirs(f, top)) }

WalkBelow(f, top, ds, i) ==
  IF i > Len(ds) THEN {<<>>}
  ELSE { a \o b : a \in WalkBottomUp(f, top \o <<ds[i]>>),
                  b \in WalkBelow(f, top, ds, i + 1) }

Item(root, name, kind) == [root |-> root, name |-> name, kind |-> kind]

\* the iterations of `for dir_name in dirs` over a walk, in order
RECURSIVE DirItems(_)
DirItems(yields) ==
  IF yields = <<>> THEN <<>>
  ELSE LET y == Head(yields)
       IN  [i \in DOMAIN y.dirs |-> Item(y.root, y.dirs[i], "dir")] \o DirItems(Tail(yields))

\* the iterations of `for file_name in files` and then `for dir_name in dirs`
RECURSIVE FileAndDirItems(_)
FileAndDirItems(yields) ==
  IF yields = <<>> THEN <<>>
  ELSE LET y == Head(yields)
       IN  [i \in DOMAIN y.files |-> Item(y.root, y.files[i], "file")]
           \o [i \in DOMAIN y.dirs |-> Item(y.root, y.dirs[i], "dir")]
           \o FileAndDirItems(Tail(yields))

\* the tests that guard the body of each loop; an iteration that fails its
\* test does nothing, and the walks below keep only the others
InDenyList(it) == it.name \in FOLDERS_TO_REMOVE

IsChinese(it) == has_chinese(it.name)

HasNumericSuffix(it) == MatchStart(it.name) > 0

HasUnderscore(it) == "_" \in Range(it.name)

RemoveWalks(f) == {SelectSeq(DirItems(w), InDenyList) : w \in WalkBottomUp(f, <<>>)}

PinyinWalks(f) == {SelectSeq(DirItems(w), IsChinese) : w \in WalkBottomUp(f, <<>>)}

SpeakerWalks(f) == {SelectSeq(DirItems(w), HasNumericSuffix) : w \in WalkBottomUp(f, <<>>)}

UnderscoreWalks(f) ==
  {SelectSeq(FileAndDirItems(w), HasUnderscore) : w \in WalkBottomUp(f, <<>>)}

(***************************************************************************)
(* One iteration of each pass: the tree afterwards, and whether an         *)
(* exception left the loop                                                 *)
(***************************************************************************)
Done(f) == [fs |-> f, raised |-> FALSE]

Raised(f) == [fs |-> f, raised |-> TRUE]

\* remove_specific_folders, the body of the loop
remove_specific_item(f, root, dir_name, dry_run) ==
  Done(safe_remove_folder(f, Join(root, dir_name), dry_run))

\* rename_folders_to_pinyin, the body of the loop
rename_pinyin_item(f, root, dir_name, dry_run) ==
  LET old_path == Join(root, dir_name)
      new_name == convert_to_pinyin(dir_name)
      new_path == Join(root, new_name)
  IN  IF new_name = <<>> THEN Done(f)
      ELSE IF dry_run THEN Done(f)
      ELSE Done(safe_rename(f, old_path, new_path))

\* `for item in os.listdir(old_path): shutil.move(item, new_path)` and then
\* shutil.rmtree(old_path); items is the listing, in its order
RECURSIVE MergeContents(_, _, _, _)
MergeContents(f, old_path, new_path, items) ==
  IF items = <<>>
  THEN IF IsDir(f, old_path) /\ old_path # <<>>
       THEN Done(RemoveTree(f, old_path)) ELSE Raised(f)
  ELSE LET r == shutil_move(f, Head(items), new_path)
       IN  IF r.ok THEN MergeContents(r.fs, old_path, new_path, Tail(items))
           ELSE Raised(r.fs)

\* rename_speaker_folders, the body of the loop; listing is os.listdir(old_path)
rename_speaker_item(f, root, dir_name, listing, dry_run) ==
  LET old_path == Join(root, dir_name)
      new_name == StripSuffix(dir_name)
      new_path == Join(root, new_name)
  IN  IF dry_run THEN Done(f)
      ELSE IF Exists(f, new_path)
           THEN IF IsDir(f, old_path)
                THEN MergeContents(f, old_path, new_path, listing)
                ELSE Raised(f)
           ELSE Done(safe_rename(f, old_path, new_path))

\* rename_files_underscore_to_dash, the body of either loop
rename_underscore_item(f, root, name, dry_run) ==
  LET old_path == Join(root, name)
      new_path == Join(root, UnderscoreToDash(name))
  IN  IF dry_run THEN Done(f)
      ELSE Done(safe_rename(f, old_path, new_path))

(***************************************************************************)
(* Audio                                                                   *)
(***************************************************************************)
TargetRate == 44100

\* the threshold of process_audio_file, in milliseconds (1.0 second)
MinMs == 1000

WavExt == <<".","w","a","v">>

LabExt == <<".","l","a","b">>

Audio(id, ch, rate, ms, sf) ==
  [id |-> id, gen |-> 0, ok |-> TRUE, sf |-> sf, ch |-> ch, rate |-> rate, ms |-> ms]

\* a file no codec decodes: a damaged recording, a transcript, any other file
Plain(id) ==
  [id |-> id, gen |-> 0, ok |-> FALSE, sf |-> FALSE, ch |-> 0, rate |-> 0, ms |-> 0]

\* what decoding, downmixing, resampling and encoding as WAV make of a file
Normalized(data) ==
  [data EXCEPT !.gen = data.gen + 1, !.ch = 1, !.rate = TargetRate, !.sf = TRUE]

\* sf.read(file_path) does not raise
SfReads(f, p) == IsFile(f, p) /\ f[p].data.ok /\ f[p].data.sf

Decodes(f, p) == IsFile(f, p) /\ f[p].data.ok

\* needs_conversion with `data.shape[1] >= 1` for `data.shape[1] > 1`
needs_conversion_from_one(data) == data.ch >= 1 \/ data.rate # TargetRate

\* `if len(data.shape) > 1 and data.shape[1] > 1` or `if sample_rate != 44100`
needs_conversion(data) == data.ch > 1 \/ data.rate # TargetRate

\* file_path.lower().endswith('.wav')
IsWavPath(p) == EndsWith(LowerSeq(Basename(p)), WavExt)

\* str(Path(file_path).with_suffix('.wav'))
WavPath(p) == Parent(p) \o <<WithSuffix(Basename(p), WavExt)>>

\* file_path.replace('.wav', '.lab'), in every component of the path
LabPath(p) == [i \in DOMAIN p |-> Replace(p[i], WavExt, LabExt)]

\* open(path, 'wb') and a write: the file is created or replaced
WriteFile(f, p, data) ==
  IF p # <<>> /\ ~IsDir(f, p) /\ IsDir(f, Parent(p))
  THEN [ok |-> TRUE,
        fs |-> [q \in DOMAIN f \cup {p} |-> IF q = p THEN File(data) ELSE f[q]]]
  ELSE [ok |-> FALSE, fs |-> f]

\* remove_short_audio_files: the files its walk collects
AudioFiles(f) ==
  {p \in DOMAIN f : f[p].type = "file" /\ LowerSeq(Suffix(Basename(p))) \in AUDIO_EXTENSIONS}

\* a call of process_audio_file: at is the place in it, file_path the
\* variable of that name, mem the decoded audio, changed the flag that
\* convert_audio_format returns, decoded whether get_audio_duration decoded
\* the file, ms the duration it returned, wrote and removed the paths the
\* call has written and deleted, given the file it was given
NewTask(f, p) ==
  [at |-> "convert", file_path |-> p, mem |-> Plain(0), changed |-> FALSE,
   decoded |-> FALSE, ms |-> 0, wrote |-> {}, removed |-> {}, given |-> f[p].data]

(***************************************************************************)
(* The run                                                                 *)
(***************************************************************************)
VARIABLES
  fs,       \* the tree below the target folder
  dry_run,  \* --dry-run
  pc,       \* the pass main() is in
  walk,     \* the iterations of the pass that are still to come
  tasks,    \* the calls of process_audio_file in the pool, by the file given
  run,      \* how many times main() was started
  fs0,      \* history: the tree before the first run
  snap,     \* history: the tree after the first run
  dropped   \* history: the iterations an exception kept a pass from

vars == <<fs, dry_run, pc, walk, tasks, run, fs0, snap, dropped>>

NoTasks == [p \in {} |-> 0]

\* how many times main() is run in a row
Runs == 2

\* how many entries a tree starts with
MaxEntries == 5

Name_A == <<"A">>
Name_A1 == <<"A","_","1">>
Name_A12 == <<"A","_","1","_","2">>
Name_B1 == <<"B","-","1">>
Name_12 == <<"1","2">>
Name_Zh == <<"u6218">>
Name_Unknown == <<"#","U","n","k","n","o","w","n">>
Name_x == <<"x">>
Name_a_b == <<"a","_","b">>
Name_adashb == <<"a","-","b">>
Name_mp3 == <<"s",".","m","p","3">>
Name_wav == <<"t",".","w","a","v">>

\* the entries a tree may start with
Candidates ==
  { <<<<Name_A>>, Dir>>, <<<<Name_A>>, File(Plain(1))>>,
    <<<<Name_A1>>, Dir>>, <<<<Name_A12>>, Dir>>, <<<<Name_B1>>, Dir>>,
    <<<<Name_12>>, Dir>>, <<<<Name_Zh>>, Dir>>, <<<<Name_Unknown>>, Dir>>,
    <<<<Name_A, Name_x>>, File(Plain(2))>>,
    <<<<Name_A1, Name_x>>, File(Plain(3))>>,
    <<<<Name_12, Name_x>>, File(Plain(4))>>,
    <<<<Name_a_b>>, File(Plain(5))>>, <<<<Name_adashb>>, File(Plain(6))>>,
    <<<<Name_mp3>>, File(Audio(7, 2, 22050, 999, TRUE))>>,
    <<<<Name_wav>>, File(Audio(8, 2, 44100, 1000, TRUE))>> }

\* a set of entries is a tree when no path is there twice and every entry
\* is in a directory of the set
IsTree(S) ==
  /\ \A a, b \in S : a[1] = b[1] => a = b
  /\ \A a \in S : Len(a[1]) = 1 \/ <<Parent(a[1]), Dir>> \in S

TreeOf(S) == [p \in {a[1] : a \in S} |-> (CHOOSE a \in S : a[1] = p)[2]]

Trees(C, n) == {TreeOf(S) : S \in {T \in SUBSET C : Cardinality(T) <= n /\ IsTree(T)}}

Init ==
  /\ fs \in Trees(Candidates, MaxEntries)
  /\ dry_run \in BOOLEAN
  /\ pc = "main"
  /\ walk = <<>>
  /\ tasks = NoTasks
  /\ run = 1
  /\ fs0 = fs
  /\ snap = fs
  /\ dropped = <<>>

\* one iteration done: on to the next, or out of the loop by the exception,
\* which the pass catches after the loop
Step(r) ==
  /\ fs' = r.fs
  /\ walk' = IF r.raised THEN <<>> ELSE Tail(walk)
  /\ dropped' = IF r.raised THEN dropped \o Tail(walk) ELSE dropped
  /\ UNCHANGED <<dry_run, pc, tasks, run, fs0, snap>>

Begin(walks, next) ==
  /\ walk = <<>>
  /\ \E w \in walks : walk' = w
  /\ pc' = next
  /\ UNCHANGED <<fs, dry_run, tasks, run, fs0, snap, dropped>>

\* main calls rename_folders_to_pinyin, which calls remove_specific_folders
Main ==
  /\ pc = "main"
  /\ Begin(RemoveWalks(fs), "remove")

RemoveStep ==
  /\ pc = "remove" /\ walk # <<>>
  /\ Step(remove_specific_item(fs, Head(walk).root, Head(walk).name, dry_run))

\* rename_folders_to_pinyin, its own walk
BeginPinyin ==
  /\ pc = "remove"
  /\ Begin(PinyinWalks(fs), "pinyin")

PinyinStep ==
  /\ pc = "pinyin" /\ walk # <<>>
  /\ Step(rename_pinyin_item(fs, Head(walk).root, Head(walk).name, dry_run))

\* remove_short_audio_files: the walk that collects the files, and the pool
BeginAudio ==
  /\ pc = "pinyin" /\ walk = <<>>
  /\ tasks' = [p \in AudioFiles(fs) |-> NewTask(fs, p)]
  /\ pc' = "audio"
  /\ UNCHANGED <<fs, dry_run, walk, run, fs0, snap, dropped>>

PoolDone == \A p \in DOMAIN tasks : tasks[p].at = "done"

\* main calls rename_speaker_folders
BeginSpeaker ==
  /\ pc = "audio" /\ PoolDone
  /\ \E w \in SpeakerWalks(fs) : walk' = w
  /\ pc' = "speaker"
  /\ tasks' = NoTasks
  /\ UNCHANGED <<fs, dry_run, run, fs0, snap, dropped>>

SpeakerStep ==
  /\ pc = "speaker" /\ walk # <<>>
  /\ \E listing \in Perms(Children(fs, Join(Head(walk).root, Head(walk).name))) :
       Step(rename_speaker_item(fs, Head(walk).root, Head(walk).name, listing, dry_run))

\* main calls rename_files_underscore_to_dash
BeginUnderscore ==
  /\ pc = "speaker"
  /\ Begin(UnderscoreWalks(fs), "underscore")

UnderscoreStep ==
  /\ pc = "underscore" /\ walk # <<>>
  /\ Step(rename_underscore_item(fs, Head(walk).root, Head(walk).name, dry_run))

\* main returns
Finish ==
  /\ pc = "underscore" /\ walk = <<>>
  /\ pc' = "done"
  /\ snap' = IF run = 1 THEN fs ELSE snap
  /\ UNCHANGED <<fs, dry_run, walk, tasks, run, fs0, dropped>>

\* the same command is run again
Rerun ==
  /\ pc = "done" /\ run < Runs
  /\ pc' = "main"
  /\ run' = run + 1
  /\ UNCHANGED <<fs, dry_run, walk, tasks, fs0, snap, dropped>>

(***************************************************************************)
(* process_audio_file, one filesystem call at a time: the calls of the     *)
(* pool's threads interleave between them.  Each operator gives the tree   *)
(* and the call's state after the step.                                    *)
(***************************************************************************)
After(f, t) == [fs |-> f, task |-> t]

\* convert_audio_format returns (file_path, changed); get_audio_duration is next
Return(f, t, changed) == After(f, [t EXCEPT !.at = "duration", !.changed = changed])

\* convert_audio_format up to the end of the soundfile read
convert_read(f, t, dry) ==
  IF ~Exists(f, t.file_path) THEN Return(f, t, FALSE)
  ELSE IF IsWavPath(t.file_path) /\ SfReads(f, t.file_path)
       THEN LET data == f[t.file_path].data
            IN  IF ~needs_conversion(data) THEN Return(f, t, FALSE)
                ELSE IF dry THEN Return(f, t, TRUE)
                ELSE After(f, [t EXCEPT !.at = "sf_write", !.mem = Normalized(data)])
       ELSE After(f, [t EXCEPT !.at = "pd_read"])

\* sf.write(file_path, data, 44100)
convert_sf_write(f, t) ==
  LET r == WriteFile(f, t.file_path, t.mem)
  IN  IF r.ok
      THEN Return(r.fs, [t EXCEPT !.wrote = @ \cup {t.file_path}], TRUE)
      ELSE After(f, [t EXCEPT !.at = "pd_read"])

\* AudioSegment.from_file, set_channels, set_frame_rate, up to the export
convert_pd_read(f, t, dry) ==
  IF ~Decodes(f, t.file_path) THEN Return(f, t, FALSE)
  ELSE LET new_path == WavPath(t.file_path)
           audio    == Normalized(f[t.file_path].data)
       IN  IF t.file_path = new_path /\ audio.ch = 1 /\ audio.rate = TargetRate
           THEN Return(f, t, FALSE)
           ELSE IF dry THEN Return(f, [t EXCEPT !.file_path = new_path], TRUE)
           ELSE After(f, [t EXCEPT !.at = "export", !.mem = audio])

\* audio.export(new_path, format='wav')
convert_export(f, t) ==
  LET new_path == WavPath(t.file_path)
      r        == WriteFile(f, new_path, t.mem)
  IN  IF r.ok
      THEN After(r.fs, [t EXCEPT !.at = IF t.file_path # new_path THEN "rm_src" ELSE "duration",
                                 !.changed = (t.file_path = new_path),
                                 !.wrote = @ \cup {new_path}])
      ELSE Return(f, t, FALSE)

\* `if file_path != new_path: os.remove(file_path)`
convert_remove(f, t) ==
  LET r == os_remove(f, t.file_path)
  IN  IF r.ok
      THEN Return(r.fs, [t EXCEPT !.file_path = WavPath(t.file_path),
                                  !.removed = @ \cup {t.file_path}], TRUE)
      ELSE Return(f, t, FALSE)

\* get_audio_duration, 0.0 when the decoding raises
get_audio_duration(f, file_path) ==
  IF Decodes(f, file_path) THEN f[file_path].data.ms ELSE 0

\* process_audio_file: `duration = get_audio_duration(file_path)` and
\* `if duration < 1.0`
check_duration(f, t, dry) ==
  LET duration == get_audio_duration(f, t.file_path)
      t1       == [t EXCEPT !.decoded = Decodes(f, t.file_path), !.ms = duration]
  IN  IF duration < MinMs
      THEN IF dry THEN After(f, [t1 EXCEPT !.at = "done"])
           ELSE After(f, [t1 EXCEPT !.at = "rm_audio"])
      ELSE After(f, [t1 EXCEPT !.at = "done"])

\* os.remove(file_path)
remove_audio(f, t) ==
  LET r == os_remove(f, t.file_path)
  IN  IF r.ok
      THEN After(r.fs, [t EXCEPT !.at = "rm_lab", !.removed = @ \cup {t.file_path}])
      ELSE After(f, [t EXCEPT !.at = "done"])

\* os.remove(file_path.replace('.wav', '.lab'))
remove_lab(f, t) ==
  LET lab == LabPath(t.file_path)
      r   == os_remove(f, lab)
  IN  IF r.ok
      THEN After(r.fs, [t EXCEPT !.at = "done", !.removed = @ \cup {lab}])
      ELSE After(f, [t EXCEPT !.at = "done"])

\* a thread of the pool takes the next step of the call for p
Thread(p, r) ==
  /\ fs' = r.fs
  /\ tasks' = [tasks EXCEPT ![p] = r.task]
  /\ UNCHANGED <<dry_run, pc, walk, run, fs0, snap, dropped>>

At(p, at) == pc = "audio" /\ tasks[p].at = at

ConvertRead ==
  \E p \in DOMAIN tasks :
    At(p, "convert") /\ Thread(p, convert_read(fs, tasks[p], dry_run))

ConvertSfWrite ==
  \E p \in DOMAIN tasks : At(p, "sf_write") /\ Thread(p, convert_sf_write(fs, tasks[p]))

ConvertPdRead ==
  \E p \in DOMAIN tasks :
    At(p, "pd_read") /\ Thread(p, convert_pd_read(fs, tasks[p], dry_run))

ConvertExport ==
  \E p \in DOMAIN tasks : At(p, "export") /\ Thread(p, convert_export(fs, tasks[p]))

ConvertRemove ==
  \E p \in DOMAIN tasks : At(p, "rm_src") /\ Thread(p, convert_remove(fs, tasks[p]))

CheckDuration ==
  \E p \in DOMAIN tasks :
    At(p, "duration") /\ Thread(p, check_duration(fs, tasks[p], dry_run))

RemoveAudio ==
  \E p \in DOMAIN tasks : At(p, "rm_audio") /\ Thread(p, remove_audio(fs, tasks[p]))

RemoveLab ==
  \E p \in DOMAIN tasks : At(p, "rm_lab") /\ Thread(p, remove_lab(fs, tasks[p]))

Pool ==
  \/ ConvertRead
  \/ ConvertSfWrite
  \/ ConvertPdRead
  \/ ConvertExport
  \/ ConvertRemove
  \/ CheckDuration
  \/ RemoveAudio
  \/ RemoveLab

Next ==
  \/ Main
  \/ RemoveStep
  \/ BeginPinyin
  \/ PinyinStep
  \/ BeginAudio
  \/ Pool
  \/ BeginSpeaker
  \/ SpeakerStep
  \/ BeginUnderscore
  \/ UnderscoreStep
  \/ Finish
  \/ Rerun

Spec == Init /\ [][Next]_vars

(***************************************************************************)
(* remove_short_audio_files on its own, over one directory of recordings   *)
(* and transcripts                                                         *)
(***************************************************************************)
\* how many recordings the directory starts with
MaxAudio == 2

AudioNames ==
  <<  <<"a",".","m","p","3">>, <<"a",".","w","a","v">>, <<"A",".","W","A","V">> >>

LabNames == { <<"a",".","l","a","b">>, <<"A",".","l","a","b">> }

\* what a recording may hold; i names its bytes
Recordings(i) ==
  { Audio(i, 1, 44100, 999, TRUE), Audio(i, 1, 44100, 1000, TRUE),
    Audio(i, 1, 44100, 1000, FALSE), Audio(i, 2, 22050, 999, TRUE),
    Audio(i, 2, 22050, 1000, FALSE), Audio(i, 2, 44100, 1000, TRUE),
    Audio(i, 1, 22050, 999, TRUE), Plain(i) }

AudioTrees ==
  { [p \in {<<AudioNames[i]>> : i \in I} \cup {<<l>> : l \in L} |->
       IF \E i \in I : p = <<AudioNames[i]>>
       THEN File(d[CHOOSE i \in I : p = <<AudioNames[i]>>])
       ELSE File(Plain(0))] :
    <<I, L, d>> \in
      { <<I, L, d>> \in (SUBSET DOMAIN AudioNames) \X (SUBSET LabNames)
                        \X [DOMAIN AudioNames -> UNION {Recordings(i) : i \in DOMAIN AudioNames}] :
          /\ I # {} /\ Cardinality(I) <= MaxAudio
          /\ \A i \in DOMAIN AudioNames :
               d[i] \in (IF i \in I THEN Recordings(i) ELSE {Plain(i)}) } }

InitAudio ==
  /\ fs \in AudioTrees
  /\ dry_run \in BOOLEAN
  /\ pc = "pinyin"
  /\ walk = <<>>
  /\ tasks = NoTasks
  /\ run = 1
  /\ fs0 = fs
  /\ snap = fs
  /\ dropped = <<>>

NextAudio ==
  \/ BeginAudio
  \/ Pool

SpecAudio == InitAudio /\ [][NextAudio]_vars

(***************************************************************************)
(* Properties                                                              *)
(***************************************************************************)
Names(f, p) == {Basename(q) : q \in Children(f, p)}

\* the path of the iteration that is next
OldPath == Join(Head(walk).root, Head(walk).name)

\* an iteration of a renaming pass is taken
RenameIteration ==
  pc \in {"pinyin", "speaker", "underscore"} /\ walk # <<>> /\ walk' # walk

\* an iteration of rename_speaker_folders is taken in execute mode
SpeakerIteration == pc = "speaker" /\ walk # <<>> /\ walk' # walk /\ ~dry_run

\* C1: in preview mode the tree is, in every state of a run of main and of
\* the run after it, the tree the first run started on: no pass renames,
\* moves, deletes, creates or rewrites an entry.
C1_PreviewLeavesTree == dry_run => fs = fs0

\* a preview run has ended on a tree in which every pass found work: a
\* deny-listed folder, a CJK folder, a short stereo recording, and a folder
\* with a numeric suffix and an underscore
C1_PreviewRanAllPasses ==
  /\ dry_run /\ pc = "done" /\ run = Runs
  /\ {<<Name_Unknown>>, <<Name_Zh>>, <<Name_mp3>>, <<Name_A1>>} \subseteq DOMAIN fs0

\* C2: when main has run twice in execute mode, the tree after the second
\* run is the tree after the first.
C2_SecondRunChangesNothing == (~dry_run /\ pc = "done" /\ run = 2) => fs = snap

\* C3: when rename_speaker_folders, in execute mode, comes to a directory
\* whose base-named sibling directory exists, then after the iteration the
\* suffixed directory is gone and the sibling holds the names both held.
C3_MergeIsUnion ==
  [][ (/\ SpeakerIteration
       /\ StripSuffix(Head(walk).name) # <<>>
       /\ Join(Head(walk).root, StripSuffix(Head(walk).name)) \in DOMAIN fs
       /\ IsDir(fs, Join(Head(walk).root, StripSuffix(Head(walk).name))))
      => LET base == Join(Head(walk).root, StripSuffix(Head(walk).name))
         IN  /\ OldPath \notin DOMAIN fs'
             /\ IsDir(fs', base)
             /\ Names(fs', base) = Names(fs, base) \cup Names(fs, OldPath) ]_vars

\* C4: an iteration of a renaming pass leaves every entry that is not the
\* renamed one, nor below it, where it was and as it was: nothing that was
\* at the target of a rename or of a merge is overwritten or lost.
C4_NothingOverwritten ==
  [][ RenameIteration
      => \A q \in DOMAIN fs :
           ~IsPrefix(OldPath, q) => (q \in DOMAIN fs' /\ fs'[q] = fs[q]) ]_vars

\* C7: no iteration of a pass ends the pass: no exception keeps a pass from
\* an iteration its walk had still to come to.
C7_PassGoesOn == dropped = <<>>

\* C10: an iteration of rename_speaker_folders in execute mode leaves each
\* entry of the directory either where it was or at the same place below
\* the sibling directory named by the stripped name, and nowhere else.
C10_EntriesGoToBase ==
  [][ SpeakerIteration
      => LET base_name == StripSuffix(Head(walk).name)
             base == Head(walk).root \o <<base_name>>
         IN  \A q \in DOMAIN fs :
               (IsPrefix(OldPath, q) /\ q # OldPath)
               => LET to == base \o SubSeq(q, Len(OldPath) + 1, Len(q))
                  IN  \/ q \in DOMAIN fs' /\ fs'[q] = fs[q]
                      \/ /\ base_name # <<>>
                         /\ base \in DOMAIN fs' /\ IsDir(fs', base)
                         /\ to \in DOMAIN fs' /\ fs'[to] = fs[q] ]_vars

\* the transcript with the base name of a recording
Companion(p) == Parent(p) \o <<WithSuffix(Basename(p), LabExt)>>

\* C5: in execute mode a call of process_audio_file that decoded a duration
\* has deleted the recording exactly when the duration is below 1.0 second;
\* then the transcript with its base name is gone too, and else the
\* recording and the transcript are still there.
C5_ShortClipsRemoved ==
  \A p \in DOMAIN tasks :
    (~dry_run /\ tasks[p].at = "done" /\ tasks[p].decoded)
    => LET t == tasks[p]
           lab == Companion(t.file_path)
       IN  /\ (t.ms < MinMs) <=> (t.file_path \in t.removed)
           /\ (t.ms < MinMs) => lab \notin DOMAIN fs
           /\ (t.ms >= MinMs) =>
                /\ t.file_path \in DOMAIN fs
                /\ (lab \in DOMAIN fs0 => lab \in DOMAIN fs)

\* C6: when process_audio_file has returned for a file that no codec
\* decodes, the file is at its path with the content it had.
C6_CodecFailureLeavesFile ==
  \A p \in DOMAIN tasks :
    (tasks[p].at = "done" /\ ~tasks[p].given.ok)
    => (p \in DOMAIN fs /\ fs[p] = File(tasks[p].given))

\* the paths a call has written or deleted
Touched(t) == t.wrote \cup t.removed

\* C8: no two calls of process_audio_file in the pool have written or
\* deleted the same path.
C8_DisjointFiles ==
  \A p, q \in DOMAIN tasks :
    p # q => Touched(tasks[p]) \cap Touched(tasks[q]) = {}

AlreadyNormal(data) == data.ok /\ data.ch = 1 /\ data.rate = TargetRate

\* convert_audio_format has returned to the call: it wrote and deleted
\* nothing and returned (the path it was given, False)
ReturnedUnchanged(p) ==
  /\ tasks[p].wrote = {} /\ tasks[p].removed = {}
  /\ tasks[p].file_path = p /\ ~tasks[p].changed

====
